---- MODULE Spec2Model ----
(***************************************************************************)
(* Model of the s3rver request translator (the controllers module) and of  *)
(* the S3rver option builder (lib/index.js).                               *)
(*                                                                         *)
(* The file store and the XML template builder are collaborators whose     *)
(* code is not part of the sources at hand; they are modelled from their   *)
(* documented interfaces.  async.each is modelled by its library contract: *)
(* the iterator is started for every element at once, the final callback   *)
(* runs once, on the first error or after the last success.                *)
(***************************************************************************)
EXTENDS Integers, Sequences, FiniteSets, TLC

\* ------------------------------------------------------------------------
\* Bounds
\* ------------------------------------------------------------------------
\* number of distinct object keys of the bucket
NumKeys == 2
\* longest key list of a batch delete body
MaxKeys == 3

Keys == {"k" \o ToString(i) : i \in 1..NumKeys}

Range(q) == {q[i] : i \in DOMAIN q}

Min(S) == CHOOSE m \in S : \A n \in S : m <= n

IsPrefix(p, q) == Len(p) <= Len(q) /\ \A i \in DOMAIN p : p[i] = q[i]

Distinct(q) == \A i, j \in DOMAIN q : q[i] = q[j] => i = j

\* Sequences over S of length 1..n
SeqsUpTo(S, n) == UNION {[1..m -> S] : m \in 1..n}

\* A request body that xml2js cannot parse: the parser reports an error and
\* hands over no document
Malformed == [wellFormed |-> FALSE, keys |-> <<>>]

\* Bodies of POST /<bucket>?delete: malformed XML, or a Delete envelope
\* whose Object elements name these keys in document order
Bodies == {Malformed} \cup
          {[wellFormed |-> TRUE, keys |-> ks] : ks \in SeqsUpTo(Keys, MaxKeys)}

VARIABLES
  objects,     \* keys stored in the bucket of the request (file store)
  pc,          \* position of the batch delete request
  parseErr,    \* err handed over by xml2js.parseString
  keys,        \* the parsed key list
  exists,      \* first async.each: per element "pending" | "ok" | "err"
  deleted,     \* second async.each: per element "pending" | "ok" | "err"
  called1,     \* final callback of the first async.each already invoked
  called2,     \* final callback of the second async.each already invoked
  responses,   \* responses written on res for the batch request, in order
  log,         \* keys of the 'Deleted object' log lines, in order
  snapshot,    \* objects when the batch request arrived
  interfered,  \* another request changed the bucket since the batch arrived
  ioFailed,    \* the store reported a failure for a key that was present
  raceLost,    \* a removal found its key taken away by another request
  otherRes     \* status of the last single-key request of another client

deleteVars == <<objects, pc, parseErr, keys, exists, deleted, called1, called2,
                responses, log, snapshot, interfered, ioFailed, raceLost,
                otherRes>>

VARIABLES
  buckets,   \* names of the bucket directories of the file store
  bpc,       \* per request: "idle" | "getBucket" | "putBucket" | "done"
  bname,     \* per request: req.params.bucket
  bres,      \* per request: the response
  bstart,    \* per request: buckets when the request arrived
  balone,    \* per request: no other request was in progress during it
  bput,      \* per request: fileStore.putBucket was called
  bfail      \* per request: fileStore.putBucket reported an error

bucketVars == <<buckets, bpc, bname, bres, bstart, balone, bput, bfail>>

VARIABLES
  indexDocument,  \* option indexDocument ("" when not configured)
  errorDocument,  \* option errorDocument ("" when not configured)
  routingRule,    \* option routingRule (NoRule when null)
  store,          \* per key: the stored object (sidecar and body)
  etags,          \* per key: ETag values answered for the object now stored
  gpc,            \* GET: "idle" | "getObject" | "getIndex" | "getError" | "done"
  greq,           \* GET: the request
  gkey,           \* GET: keyName
  gres,           \* GET: the response
  ghit,           \* GET: the first lookup found the object
  gobj,           \* GET: the object the first lookup found
  gims,           \* GET: the If-Modified-Since header was consulted
  gheld,          \* GET: If-None-Match is an ETag answered for that object
  glooks,         \* GET: keys handed to fileStore.getObject, in order
  gsent,          \* GET: number of responses written
  gstreams,       \* GET: per stream the store handed over: "open" | "piped"
  pres            \* response of the last PUT /<bucket>/<key>

getVars == <<indexDocument, errorDocument, routingRule, store, etags, gpc,
             greq, gkey, gres, ghit, gobj, gims, gheld, glooks, gsent,
             gstreams, pres>>

VARIABLES
  rsize,   \* response builder: object.size
  rrange,  \* response builder: data.range
  rres     \* response builder: the response, once built

buildVars == <<rsize, rrange, rres>>

VARIABLES
  dexists,  \* DELETE /<bucket>: the bucket directory exists
  dkeys,    \* DELETE /<bucket>: keys of the objects stored in the bucket
  dpc,      \* per request: "idle" | "bucketExists" | "deleteBucket" | "done"
  dres      \* per request: the response

dropVars == <<dexists, dkeys, dpc, dres>>

VARIABLES
  cbuckets,  \* copy: names of the existing buckets
  cstore,    \* copy: per bucket and key the stored object
  cpc,       \* copy: "idle" | "getBucket" | "getObject" | "copyObject" | "done"
  creq,      \* copy: the request
  cres,      \* copy: the response
  ccalls,    \* copy: the arguments of every fileStore.copyObject call
  cstreams,  \* copy: per stream the store handed over: "open" | "piped"
  cdest      \* copy: the destination object when the request arrived

copyVars == <<cbuckets, cstore, cpc, creq, cres, ccalls, cstreams, cdest>>

VARIABLES
  diskBody,   \* same key: upload whose body is at <key> (0: none)
  diskMeta,   \* same key: upload whose sidecar is at <key>.metadata.json
  upc,        \* per upload: "idle" | "sidecar" | "done"
  ures,       \* per upload: the response of the PUT
  apc,        \* GET of the key: "idle" | "open" | "done"
  ameta,      \* GET of the key: upload whose sidecar was loaded
  abody,      \* GET of the key: upload whose body was opened
  ares,       \* GET of the key: the response and the upload of its body
  alate,      \* GET of the key: it arrived when every upload was answered
  published   \* uploads in the order their sidecars were written

sameKeyVars == <<diskBody, diskMeta, upc, ures, apc, ameta, abody, ares, alate,
                 published>>

VARIABLES
  options,  \* S3rver: this.options
  olast,    \* per setter: the argument of its last call (Unset: not called)
  oself     \* the last setter returned this

optionVars == <<options, olast, oself>>

\* what the batch delete actions leave alone
notDelete == <<bucketVars, getVars, buildVars, dropVars, copyVars, sameKeyVars,
               optionVars>>

\* what the bucket actions leave alone
notBucket == <<deleteVars, getVars, buildVars, dropVars, copyVars, sameKeyVars,
               optionVars>>

\* what the object actions leave alone
notGet == <<deleteVars, bucketVars, buildVars, dropVars, copyVars, sameKeyVars,
            optionVars>>

\* what the response builder leaves alone
notBuild == <<deleteVars, bucketVars, getVars, dropVars, copyVars, sameKeyVars,
              optionVars>>

\* what DELETE /<bucket> leaves alone
notDrop == <<deleteVars, bucketVars, getVars, buildVars, copyVars, sameKeyVars,
             optionVars>>

\* what the copy leaves alone
notCopy == <<deleteVars, bucketVars, getVars, buildVars, dropVars, sameKeyVars,
             optionVars>>

\* what the requests on one key leave alone
notSameKey == <<deleteVars, bucketVars, getVars, buildVars, dropVars, copyVars,
                optionVars>>

\* what the setters leave alone
notOptions == <<deleteVars, bucketVars, getVars, buildVars, dropVars, copyVars,
                sameKeyVars>>

\* ------------------------------------------------------------------------
\* XML template builder (pure)
\* ------------------------------------------------------------------------
NoKey == ""

buildKeyNotFound(key) == [code |-> "NoSuchKey", key |-> key, keys |-> <<>>]

buildError(code) == [code |-> code, key |-> NoKey, keys |-> <<>>]

buildObjectsDeleted(ks) == [code |-> "DeleteResult", key |-> NoKey, keys |-> ks]

\* res.status(status); res.send(template)
buildXmlResponse(status, template) ==
  [status |-> status, code |-> template.code, key |-> template.key,
   keys |-> template.keys]

\* ------------------------------------------------------------------------
\* File store
\* ------------------------------------------------------------------------
\* getObjectExists(bucket, key): stat only
getObjectExists(objs, key) == key \in objs

\* deleteObject(bucket, key): removes body and sidecar; fails when they are
\* not there, or when the file system reports an error (io)
deleteObjectOk(objs, key, io) == key \in objs /\ ~io

deleteObjectResult(objs, key, io) ==
  IF deleteObjectOk(objs, key, io) THEN objs \ {key} ELSE objs

\* ------------------------------------------------------------------------
\* async.each
\* ------------------------------------------------------------------------
Pending(st) == {i \in DOMAIN st : st[i] = "pending"}

Completed(st) == Cardinality({i \in DOMAIN st : st[i] = "ok"})

\* all iterators started, none called back
eachStart(ks) == [i \in DOMAIN ks |-> "pending"]

\* cb() of element i: the final callback runs when every element has
\* completed and it has not run before
eachLast(st, i, called) ==
  /\ ~called
  /\ Completed([st EXCEPT ![i] = "ok"]) >= Len(st)

\* ------------------------------------------------------------------------
\* Batch delete
\* ------------------------------------------------------------------------
\* the request has nothing left to run
Quiet(st) == Pending(st) = {}

\* response of the error branch of the existence check
existsErrorResponse(key) == buildXmlResponse(404, buildKeyNotFound(key))

\* an error branch copied from the existence check
deleteErrorResponse_NotFound(key) == buildXmlResponse(404, buildKeyNotFound(key))

\* response of the error branch of the removal
deleteErrorResponse(key) == buildXmlResponse(500, buildError("InternalError"))

\* a final callback that answers like the single-key DELETE
deletedResponse_NoContent(ks) == buildXmlResponse(204, buildObjectsDeleted(ks))

\* response of the final callback of the removals
deletedResponse(ks) == buildXmlResponse(200, buildObjectsDeleted(ks))

\* what notFoundResponse writes: the fixed HTML document with status 404
notFoundPage == [status |-> 404, code |-> "NotFoundHtml", key |-> NoKey,
                 keys |-> <<>>]

\* genericPost: POST /<bucket>, with or without ?delete; the body is
\* accumulated and handed to deleteObjects, which parses it and starts the
\* existence check of every key
genericPost(delete, body) ==
  /\ pc = "idle"
  /\ snapshot' = objects
  /\ parseErr' = (delete /\ ~body.wellFormed)
  /\ IF ~delete
       THEN /\ pc' = "finished"
            /\ responses' = Append(responses, notFoundPage)
            /\ UNCHANGED <<keys, exists>>
       ELSE IF ~body.wellFormed
         \* parsedBody is undefined: reading parsedBody.Delete throws
         THEN /\ pc' = "thrown"
              /\ UNCHANGED <<keys, exists, responses>>
         ELSE /\ pc' = "exists"
              /\ keys' = body.keys
              /\ exists' = eachStart(body.keys)
              /\ UNCHANGED responses
  /\ UNCHANGED <<objects, deleted, called1, called2, log, interfered,
                 ioFailed, raceLost, otherRes>>
  /\ UNCHANGED notDelete

\* callback of fileStore.getObjectExists for element i
existsCallback(i) ==
  /\ pc = "exists"
  /\ i \in Pending(exists)
  /\ IF ~getObjectExists(objects, keys[i])
       THEN \* cb(err); buildXmlResponse(res, 404, template)
            /\ exists' = [exists EXCEPT ![i] = "err"]
            /\ called1' = TRUE
            /\ responses' = Append(responses, existsErrorResponse(keys[i]))
            /\ pc' = IF Quiet(exists') THEN "finished" ELSE "exists"
            /\ UNCHANGED deleted
       ELSE \* cb()
            /\ exists' = [exists EXCEPT ![i] = "ok"]
            /\ UNCHANGED responses
            /\ IF eachLast(exists, i, called1)
                 THEN \* done(): start the removal of every key
                      /\ called1' = TRUE
                      /\ deleted' = eachStart(keys)
                      /\ pc' = "delete"
                 ELSE /\ UNCHANGED <<called1, deleted>>
                      /\ pc' = IF Quiet(exists') THEN "finished" ELSE "exists"
  /\ UNCHANGED <<objects, parseErr, keys, called2, log, snapshot, interfered,
                 ioFailed, raceLost, otherRes>>
  /\ UNCHANGED notDelete

\* callback of fileStore.deleteObject for element i; io: the file system
\* fails although the key is there
deleteCallback(i, io) ==
  /\ pc = "delete"
  /\ i \in Pending(deleted)
  /\ objects' = deleteObjectResult(objects, keys[i], io)
  /\ ioFailed' = (ioFailed \/ (io /\ keys[i] \in objects))
  /\ raceLost' = (raceLost \/
                   (keys[i] \notin objects /\ keys[i] \notin Range(log)))
  /\ IF ~deleteObjectOk(objects, keys[i], io)
       THEN \* cb(err); buildXmlResponse(res, 500, template)
            /\ deleted' = [deleted EXCEPT ![i] = "err"]
            /\ called2' = TRUE
            /\ responses' = Append(responses, deleteErrorResponse(keys[i]))
            /\ UNCHANGED log
       ELSE \* logger.info('Deleted object ...'); cb()
            /\ deleted' = [deleted EXCEPT ![i] = "ok"]
            /\ log' = Append(log, keys[i])
            /\ IF eachLast(deleted, i, called2)
                 THEN /\ called2' = TRUE
                      /\ responses' = Append(responses, deletedResponse(keys))
                 ELSE UNCHANGED <<called2, responses>>
  /\ pc' = IF Quiet(deleted') THEN "finished" ELSE "delete"
  /\ UNCHANGED <<parseErr, keys, exists, called1, snapshot, interfered,
                 otherRes>>
  /\ UNCHANGED notDelete

\* DELETE /<bucket>/<key> of another client
deleteObject(key, io) ==
  /\ IF ~getObjectExists(objects, key)
       THEN /\ otherRes' = 404
            /\ UNCHANGED objects
       ELSE /\ objects' = deleteObjectResult(objects, key, io)
            /\ otherRes' = IF deleteObjectOk(objects, key, io) THEN 204 ELSE 500
  /\ interfered' = (interfered \/ (pc # "idle" /\ objects' # objects))
  /\ UNCHANGED <<pc, parseErr, keys, exists, deleted, called1, called2,
                 responses, log, snapshot, ioFailed, raceLost>>
  /\ UNCHANGED notDelete

\* PUT /<bucket>/<key> of another client (plain upload)
putObject(key, io) ==
  /\ IF io
       THEN /\ otherRes' = 500
            /\ UNCHANGED objects
       ELSE /\ objects' = objects \cup {key}
            /\ otherRes' = 200
  /\ interfered' = (interfered \/ (pc # "idle" /\ objects' # objects))
  /\ UNCHANGED <<pc, parseErr, keys, exists, deleted, called1, called2,
                 responses, log, snapshot, ioFailed, raceLost>>
  /\ UNCHANGED notDelete

InitDelete ==
  /\ objects = {}
  /\ pc = "idle"
  /\ parseErr = FALSE
  /\ keys = <<>>
  /\ exists = <<>>
  /\ deleted = <<>>
  /\ called1 = FALSE
  /\ called2 = FALSE
  /\ responses = <<>>
  /\ log = <<>>
  /\ snapshot = {}
  /\ interfered = FALSE
  /\ ioFailed = FALSE
  /\ raceLost = FALSE
  /\ otherRes = 0

\* ------------------------------------------------------------------------
\* Bucket names
\* ------------------------------------------------------------------------
\* Names are sequences of characters.
Lower == {"a", "b", "c", "d", "e", "f", "g", "h", "i", "j", "k", "l", "m",
          "n", "o", "p", "q", "r", "s", "t", "u", "v", "w", "x", "y", "z"}

Digit == {"0", "1", "2", "3", "4", "5", "6", "7", "8", "9"}

\* [a-z0-9]
LowerDigit == Lower \cup Digit

\* [-a-z0-9]
LabelChar == LowerDigit \cup {"-"}

\* characters that occur in the request names of the model
Alphabet == LabelChar \cup {".", "_", "A", "B", "\n"}

\* '.' of a JavaScript regular expression: anything but a line terminator
Dot == Alphabet \ {"\n", "\r"}

\* One step of the automaton of  ^[a-z0-9]+(S[-a-z0-9]+)*$  or, with opt,
\* of  ^[a-z0-9]+(S?[-a-z0-9]+)*$  where S is the class sep.
\* 0: start   1: inside [a-z0-9]+   2: after S   3: inside [-a-z0-9]+
regexStep(q, c, sep, opt) ==
  CASE q = 0 -> IF c \in LowerDigit THEN {1} ELSE {}
    [] q = 1 -> (IF c \in LowerDigit THEN {1} ELSE {}) \cup
                (IF c \in sep THEN {2} ELSE {}) \cup
                (IF opt /\ c \in LabelChar THEN {3} ELSE {})
    [] q = 2 -> IF c \in LabelChar THEN {3} ELSE {}
    [] q = 3 -> (IF c \in LabelChar THEN {3} ELSE {}) \cup
                (IF c \in sep THEN {2} ELSE {})

RECURSIVE regexRun(_, _, _, _, _)
regexRun(S, name, i, sep, opt) ==
  IF S = {} \/ i > Len(name) THEN S
  ELSE regexRun(UNION {regexStep(q, name[i], sep, opt) : q \in S},
                name, i + 1, sep, opt)

regexTest(name, sep, opt) == regexRun({0}, name, 1, sep, opt) \cap {1, 3} # {}

\* /^[a-z0-9]+(.?[-a-z0-9]+)*$/.test(bucketName)
nameRegexTest(name) == regexTest(name, Dot, TRUE)

\* ^[a-z0-9]+([.-][-a-z0-9]+)*$ of the bucket invariant
documentedRegexTest(name) == regexTest(name, {".", "-"}, FALSE)

MinNameLength == 3
MaxNameLength == 63

\* bucketName.length < 3 || bucketName.length > 63
nameLengthInvalid(name) ==
  Len(name) < MinNameLength \/ Len(name) > MaxNameLength

Repeat(c, n) == [i \in 1..n |-> c]

\* names requested in the model
BucketNames ==
  { <<"a", "b", "c">>, <<"a", "b">>, <<"a", "_", "b">>, <<"a", ".", "b">>,
    <<"A", "b", "c">>, <<"a", "\n", "b">>,
    Repeat("a", MaxNameLength), Repeat("a", MaxNameLength + 1) }

\* ------------------------------------------------------------------------
\* PUT /<bucket>
\* ------------------------------------------------------------------------
\* number of PUT /<bucket> requests of a behaviour
MaxPuts == 2

Puts == 1..MaxPuts


NoName == <<>>

NoResponse == [status |-> 0, code |-> "", location |-> NoName]

\* buildXmlResponse(res, status, buildError(code, message))
errorXml(status, code) == [status |-> status, code |-> code, location |-> NoName]

\* res.header('Location', '/' + bucketName); res.status(200).send()
createdResponse(name) ==
  [status |-> 200, code |-> "", location |-> <<"/">> \o name]

\* a handler that never sees the bucket
bucketFound_Never(bs, name) == FALSE

\* the getBucket callback found the bucket
bucketFound(bs, name) == name \in bs

\* fileStore.putBucket(name): creates the directory
putBucketResult(bs, name) == bs \cup {name}

Active(r) == bpc[r] \in {"getBucket", "putBucket"}

\* putBucket up to the call of fileStore.getBucket
putBucketStart(r, name) ==
  /\ bpc[r] = "idle"
  /\ bname' = [bname EXCEPT ![r] = name]
  /\ bstart' = [bstart EXCEPT ![r] = buckets]
  /\ IF ~nameRegexTest(name) \/ nameLengthInvalid(name)
       THEN /\ bres' = [bres EXCEPT ![r] = errorXml(400, "InvalidBucketName")]
            /\ bpc' = [bpc EXCEPT ![r] = "done"]
            /\ UNCHANGED balone
       ELSE /\ bpc' = [bpc EXCEPT ![r] = "getBucket"]
            /\ balone' = [q \in Puts |->
                            IF q = r THEN \A o \in Puts \ {r} : ~Active(o)
                            ELSE IF Active(q) THEN FALSE ELSE balone[q]]
            /\ UNCHANGED bres
  /\ UNCHANGED <<buckets, bput, bfail>>
  /\ UNCHANGED notBucket

\* callback of fileStore.getBucket
getBucketCallback(r) ==
  /\ bpc[r] = "getBucket"
  /\ IF bucketFound(buckets, bname[r])
       THEN /\ bres' = [bres EXCEPT
                          ![r] = errorXml(409, "BucketAlreadyExists")]
            /\ bpc' = [bpc EXCEPT ![r] = "done"]
            /\ UNCHANGED bput
       ELSE /\ bput' = [bput EXCEPT ![r] = TRUE]
            /\ bpc' = [bpc EXCEPT ![r] = "putBucket"]
            /\ UNCHANGED bres
  /\ UNCHANGED <<buckets, bname, bstart, balone, bfail>>
  /\ UNCHANGED notBucket

\* callback of fileStore.putBucket; io: the store reports an error
putBucketCallback(r, io) ==
  /\ bpc[r] = "putBucket"
  /\ bpc' = [bpc EXCEPT ![r] = "done"]
  /\ bfail' = [bfail EXCEPT ![r] = io]
  /\ IF io
       THEN /\ bres' = [bres EXCEPT ![r] = errorXml(500, "InternalError")]
            /\ UNCHANGED buckets
       ELSE /\ buckets' = putBucketResult(buckets, bname[r])
            /\ bres' = [bres EXCEPT ![r] = createdResponse(bname[r])]
  /\ UNCHANGED <<bname, bstart, balone, bput>>
  /\ UNCHANGED notBucket

\* ------------------------------------------------------------------------
\* DELETE /<bucket>
\* ------------------------------------------------------------------------
\* number of DELETE /<bucket> requests
MaxDrops == 2

Drops == 1..MaxDrops

\* fileStore.deleteBucket: the directory is removed unless it is missing,
\* holds an object, or the store fails (io)
deleteBucketFails(there, ks, io) == ~there \/ ks # {} \/ io

\* res.status(204).end()
noContentResponse == [NoResponse EXCEPT !.status = 204]

\* the callback of fileStore.deleteBucket: any err is BucketNotEmpty
deleteBucketResponse(err, ks) ==
  IF err THEN errorXml(409, "BucketNotEmpty") ELSE noContentResponse

\* DELETE /<bucket> arrives: the middleware calls fileStore.getBucket
deleteBucketStart(r) ==
  /\ dpc[r] \in {"idle", "done"}
  /\ dpc' = [dpc EXCEPT ![r] = "bucketExists"]
  /\ dres' = [dres EXCEPT ![r] = NoResponse]
  /\ UNCHANGED <<dexists, dkeys>>
  /\ UNCHANGED notDrop

\* bucketExists: callback of fileStore.getBucket, then deleteBucket up to
\* the call of fileStore.deleteBucket
bucketExists(r) ==
  /\ dpc[r] = "bucketExists"
  /\ IF ~dexists
       THEN /\ dres' = [dres EXCEPT ![r] = errorXml(404, "NoSuchBucket")]
            /\ dpc' = [dpc EXCEPT ![r] = "done"]
       ELSE /\ dpc' = [dpc EXCEPT ![r] = "deleteBucket"]
            /\ UNCHANGED dres
  /\ UNCHANGED <<dexists, dkeys>>
  /\ UNCHANGED notDrop

\* callback of fileStore.deleteBucket
deleteBucketCallback(r, io) ==
  /\ dpc[r] = "deleteBucket"
  /\ dpc' = [dpc EXCEPT ![r] = "done"]
  /\ LET err == deleteBucketFails(dexists, dkeys, io) IN
     /\ dexists' = (dexists /\ err)
     /\ dres' = [dres EXCEPT ![r] = deleteBucketResponse(err, dkeys)]
  /\ UNCHANGED dkeys
  /\ UNCHANGED notDrop

\* another client's PUT /<bucket>/<key> has stored an object
bucketObjectPut(k) ==
  /\ dexists
  /\ k \notin dkeys
  /\ dkeys' = dkeys \cup {k}
  /\ UNCHANGED <<dexists, dpc, dres>>
  /\ UNCHANGED notDrop

\* another client's PUT /<bucket> has created the bucket again
bucketPut ==
  /\ ~dexists
  /\ dexists' = TRUE
  /\ UNCHANGED <<dkeys, dpc, dres>>
  /\ UNCHANGED notDrop

\* the bucket exists and is empty, no DELETE /<bucket> has arrived
InitDrop ==
  /\ dexists = TRUE
  /\ dkeys = {}
  /\ dpc = [r \in Drops |-> "idle"]
  /\ dres = [r \in Drops |-> NoResponse]

\* ------------------------------------------------------------------------
\* Objects, headers and the response builder
\* ------------------------------------------------------------------------
\* undefined / an omitted number
Undefined == -1

\* Invalid Date
NaN == -2

\* uploaded bodies
GetBodies == {"hello", "a"}

\* hex MD5 of the body, as the store computes it on upload
md5Hex(body) ==
  CASE body = "hello" -> "5d41402abc4b2a76b9719d911017c592"
    [] body = "a" -> "0cc175b9c0f1b6a831c399e269772661"

\* clock readings, in milliseconds
Times == {1000, 1500}

\* keys of the bucket
StoreKeys == {"a", "a/index.html", "404.html"}

\* keys requested
RequestKeys == {"a"}

\* uploads per key: the object under "a" varies in body and time, the index
\* and error documents are uploaded with one body
Uploads(key) ==
  IF key = "a" THEN GetBodies \X Times ELSE {<<"a", 1000>>}

NoObject == [present |-> FALSE, md5 |-> "", size |-> 0, modifiedDate |-> 0,
             contentType |-> ""]

\* the object putObject persists: md5 and size of the body, modifiedDate now
storedObject(body, now) ==
  [present |-> TRUE, md5 |-> md5Hex(body), size |-> Len(body),
   modifiedDate |-> now, contentType |-> "application/octet-stream"]

\* fileStore.getObject: the object under key, NoObject (err) when missing
lookup(st, key) == IF key \in DOMAIN st THEN st[key] ELSE NoObject

NoRange == [present |-> FALSE, start |-> 0, end |-> Undefined]

bytesRange(a, b) == [present |-> TRUE, start |-> a, end |-> b]

\* the stream fileStore.getObject opens: data.range is the parsed Range
openRead(key, range) == [key |-> key, range |-> range]

\* new Date(x).toUTCString(): the time at whole seconds
toUTCString(ms) == (ms \div 1000) * 1000

\* '"' + md5 + '"'
quoted(md5) == "\"" \o md5 \o "\""

NoContentRange == [start |-> Undefined, end |-> Undefined, size |-> Undefined]

NoGetResponse ==
  [status |-> 0, kind |-> "", code |-> "", etag |-> "",
   lastModified |-> Undefined, contentLength |-> Undefined,
   contentRange |-> NoContentRange, location |-> "", piped |-> FALSE,
   source |-> "", contentType |-> ""]

Min2(a, b) == IF a <= b THEN a ELSE b

\* x || Infinity, then Math.min(.., size - 1): undefined and 0 are falsy
clampedEnd(end, size) ==
  IF end = Undefined \/ end = 0 THEN size - 1 ELSE Min2(end, size - 1)

\* buildResponse(req, res, status, object, data)
buildResponse(method, status, object, data) ==
  LET end == clampedEnd(data.range.end, object.size) IN
  [NoGetResponse EXCEPT
     !.status = status,
     !.kind = "object",
     !.etag = quoted(object.md5),
     !.lastModified = toUTCString(object.modifiedDate),
     !.contentType = object.contentType,
     !.contentRange = IF data.range.present
                        THEN [start |-> data.range.start, end |-> end,
                              size |-> object.size]
                        ELSE NoContentRange,
     !.contentLength = IF data.range.present
                         THEN end - data.range.start + 1
                         ELSE object.size,
     !.piped = (method # "HEAD"),
     !.source = data.key]

\* ErrorDoc.length
ErrorDocLength == 127

\* notFoundResponse(req, res): the fixed HTML document; the object carries
\* no md5
notFoundResponse(method, now) ==
  buildResponse(method, 404,
                [present |-> TRUE, md5 |-> "undefined", size |-> ErrorDocLength,
                 modifiedDate |-> now, contentType |-> "text/html"],
                openRead("", NoRange))

\* buildXmlResponse(res, status, template) for the object routes
xmlResponse(status, code) ==
  [NoGetResponse EXCEPT !.status = status, !.kind = "xml", !.code = code,
                        !.contentType = "application/xml"]

\* res.status(status).end()
endResponse(status) == [NoGetResponse EXCEPT !.status = status, !.kind = "empty"]

\* ------------------------------------------------------------------------
\* The response builder on its own
\* ------------------------------------------------------------------------
\* largest object size
MaxSize == 4

RangeInputs ==
  {NoRange} \cup
  {bytesRange(a, b) : a \in 0..MaxSize, b \in {Undefined} \cup 0..(MaxSize + 1)}

\* an object size and a data.range are handed to the builder
BuildInputs ==
  /\ rsize \in 0..MaxSize
  /\ rrange \in RangeInputs
  /\ rres = NoGetResponse

\* the builder is not exercised
BuildAtRest ==
  /\ rsize = 0
  /\ rrange = NoRange
  /\ rres = NoGetResponse

\* buildResponse for an object of rsize bytes and a stream with data.range
buildResponseCall(method, status) ==
  /\ rres = NoGetResponse
  /\ rres' = buildResponse(method, status,
                           [present |-> TRUE, md5 |-> md5Hex("a"),
                            size |-> rsize, modifiedDate |-> 1000,
                            contentType |-> "application/octet-stream"],
                           openRead("a", rrange))
  /\ UNCHANGED <<rsize, rrange>>
  /\ UNCHANGED notBuild

\* ------------------------------------------------------------------------
\* GET and PUT /<bucket>/<key>
\* ------------------------------------------------------------------------
NoRule == [set |-> FALSE, HostName |-> "", Port |-> "", Protocol |-> "",
           ReplaceKeyPrefixWith |-> "", HttpRedirectCode |-> 0]

\* HostName is kept as the two parts of HostName.split(':')
Rule == [set |-> TRUE, HostName |-> "example.com", Port |-> "443",
         Protocol |-> "https", ReplaceKeyPrefixWith |-> "new/",
         HttpRedirectCode |-> 301]

\* req.hostname
RequestHost == "localhost"

NoHeader == ""

NoDate == [present |-> FALSE, time |-> NaN]

httpDate(ms) == [present |-> TRUE, time |-> ms]

IfNoneMatchValues ==
  {NoHeader, "*"} \cup {quoted(md5Hex(b)) : b \in GetBodies}

IfModifiedSinceValues == {NoDate, httpDate(1000), httpDate(2000)}

RangeHeaders == {NoRange, bytesRange(1, 3)}

Requests ==
  [method : {"GET", "HEAD"}, key : RequestKeys, acl : BOOLEAN,
   range : RangeHeaders, inm : IfNoneMatchValues, ims : IfModifiedSinceValues]

NoRequest == [method |-> "", key |-> "", acl |-> FALSE, range |-> NoRange,
              inm |-> NoHeader, ims |-> NoDate]

\* path.join(keyName, indexDocument)
pathJoin(a, b) == a \o "/" \o b

\* a comparison that forgets the wildcard
noneMatches_NoStar(inm, object) ==
  inm # NoHeader /\ inm = quoted(object.md5)

\* noneMatch && (noneMatch === '"' + object.md5 + '"' || noneMatch === '*')
noneMatches(inm, object) ==
  inm # NoHeader /\ (inm = quoted(object.md5) \/ inm = "*")

\* time >= modifiedDate; a comparison with Invalid Date is false
notModifiedSince(ims, object) ==
  ims.time # NaN /\ ims.time >= object.modifiedDate

\* the Location of the redirect
redirectLocation(rule, keyName) ==
  LET host == IF rule.HostName # "" THEN rule.HostName ELSE RequestHost IN
  rule.Protocol \o "://" \o host \o ":" \o rule.Port \o "/" \o
    rule.ReplaceKeyPrefixWith \o keyName

redirectResponse(rule, keyName) ==
  [NoGetResponse EXCEPT
     !.status = rule.HttpRedirectCode, !.kind = "empty",
     !.location = redirectLocation(rule, keyName), !.contentLength = 0]

\* what has become of the stream the store opened once res is written: it
\* is piped by buildResponse for GET (data.pipe(res)) and left as it is by
\* res.end()
streamAfter(res) == IF res.piped THEN "piped" ELSE "open"

\* ETag values answered so far, with the one of a response served from the
\* object under its source key
answered(res) ==
  IF res.kind = "object" /\ res.source \in StoreKeys
    THEN [etags EXCEPT ![res.source] = @ \cup {res.etag}]
    ELSE etags

\* a miss branch that tries the index document before the routing rule
missRoute_IndexFirst(rule, index) ==
  IF index # "" THEN "index" ELSE IF rule.set THEN "redirect" ELSE "error"

\* the branch of the miss: if (routingRule) .. if (indexDocument) .. else
missRoute(rule, index) ==
  IF rule.set THEN "redirect" ELSE IF index # "" THEN "index" ELSE "error"

\* an error branch that serves the error document without the index option
errorRoute_AnyMode(index, error) ==
  IF error # "" THEN "document" ELSE "page"

\* the branch of errorResponse: if (indexDocument) { if (errorDocument) .. }
errorRoute(index, error) ==
  IF index # ""
    THEN IF error # "" THEN "document" ELSE "page"
    ELSE "xml"

\* errorResponse(req, res, keyName)
errorResponse(keyName, now) ==
  LET route == errorRoute(indexDocument, errorDocument) IN
  IF route = "document"
    THEN /\ gpc' = "getError"
         /\ glooks' = Append(glooks, errorDocument)
         /\ UNCHANGED <<gres, gsent>>
    ELSE /\ gpc' = "done"
         /\ gsent' = gsent + 1
         /\ UNCHANGED glooks
         /\ gres' = IF route = "page"
                      THEN notFoundResponse(greq.method, now)
                      ELSE xmlResponse(404, "NoSuchKey")

\* getObject up to the call of fileStore.getObject
getObject(req) ==
  /\ gpc \in {"idle", "done"}
  /\ greq' = req
  /\ gkey' = req.key
  /\ ghit' = FALSE
  /\ gobj' = NoObject
  /\ gims' = FALSE
  /\ gheld' = FALSE
  /\ gstreams' = <<>>
  /\ IF req.acl
       THEN /\ gres' = xmlResponse(200, "AccessControlPolicy")
            /\ gpc' = "done"
            /\ gsent' = 1
            /\ glooks' = <<>>
       ELSE /\ gres' = NoGetResponse
            /\ gpc' = "getObject"
            /\ gsent' = 0
            /\ glooks' = <<req.key>>
  /\ UNCHANGED <<indexDocument, errorDocument, routingRule, store, etags, pres>>
  /\ UNCHANGED notGet

\* callback of fileStore.getObject(req.bucket, keyName, req.headers.range)
getObjectCallback(now) ==
  /\ gpc = "getObject"
  /\ LET object == lookup(store, gkey)
         data == openRead(gkey, greq.range)
     IN
     IF ~object.present
       THEN /\ UNCHANGED <<ghit, gobj, gims, gheld, gstreams>>
            /\ LET route == missRoute(routingRule, indexDocument) IN
               IF route = "redirect"
                 THEN /\ gres' = redirectResponse(routingRule, gkey)
                      /\ gpc' = "done"
                      /\ gsent' = gsent + 1
                      /\ UNCHANGED <<gkey, glooks>>
                 ELSE IF route = "index"
                   THEN /\ gkey' = pathJoin(gkey, indexDocument)
                        /\ glooks' = Append(glooks, gkey')
                        /\ gpc' = "getIndex"
                        /\ UNCHANGED <<gres, gsent>>
                   ELSE /\ errorResponse(gkey, now)
                        /\ UNCHANGED gkey
       ELSE /\ ghit' = TRUE
            /\ gobj' = object
            /\ gheld' = (greq.inm \in etags[gkey])
            /\ gpc' = "done"
            /\ gsent' = gsent + 1
            /\ UNCHANGED <<gkey, glooks>>
            /\ IF noneMatches(greq.inm, object)
                 THEN /\ gres' = endResponse(304)
                      /\ UNCHANGED gims
                 ELSE /\ gims' = TRUE
                      /\ IF greq.ims.present /\ notModifiedSince(greq.ims, object)
                           THEN gres' = endResponse(304)
                           ELSE gres' = buildResponse(
                                          greq.method,
                                          IF greq.range.present THEN 206 ELSE 200,
                                          object, data)
            /\ gstreams' = Append(gstreams, streamAfter(gres'))
  /\ etags' = answered(gres')
  /\ UNCHANGED <<indexDocument, errorDocument, routingRule, store, greq, pres>>
  /\ UNCHANGED notGet

\* callback of fileStore.getObject(req.bucket, keyName) for the index document
getIndexCallback(now) ==
  /\ gpc = "getIndex"
  /\ LET object == lookup(store, gkey) IN
     IF ~object.present
       THEN /\ errorResponse(gkey, now)
            /\ UNCHANGED gstreams
       ELSE /\ gres' = buildResponse(greq.method, 200, object,
                                     openRead(gkey, NoRange))
            /\ gpc' = "done"
            /\ gsent' = gsent + 1
            /\ gstreams' = Append(gstreams, streamAfter(gres'))
            /\ UNCHANGED glooks
  /\ etags' = answered(gres')
  /\ UNCHANGED <<indexDocument, errorDocument, routingRule, store, greq, gkey,
                 ghit, gobj, gims, gheld, pres>>
  /\ UNCHANGED notGet

\* callback of fileStore.getObject(req.bucket, errorDocument)
getErrorCallback(now) ==
  /\ gpc = "getError"
  /\ gpc' = "done"
  /\ gsent' = gsent + 1
  /\ LET object == lookup(store, errorDocument) IN
     IF ~object.present
       THEN /\ gres' = notFoundResponse(greq.method, now)
            /\ UNCHANGED gstreams
       ELSE /\ gres' = buildResponse(greq.method, 404, object,
                                     openRead(errorDocument, NoRange))
            /\ gstreams' = Append(gstreams, streamAfter(gres'))
  /\ UNCHANGED glooks
  /\ etags' = answered(gres')
  /\ UNCHANGED <<indexDocument, errorDocument, routingRule, store, greq, gkey,
                 ghit, gobj, gims, gheld, pres>>
  /\ UNCHANGED notGet

\* res.header('ETag', '"' + key.md5 + '"'); res.status(200).end()
uploadedResponse(object) ==
  [NoGetResponse EXCEPT !.status = 200, !.kind = "empty",
                        !.etag = quoted(object.md5)]

\* PUT /<bucket>/<key> without x-amz-copy-source; io: the store fails
putObjectUpload(key, body, now, io) ==
  /\ IF io
       THEN /\ pres' = xmlResponse(500, "InternalError")
            /\ UNCHANGED <<store, etags>>
       ELSE /\ store' = [store EXCEPT ![key] = storedObject(body, now)]
            /\ pres' = uploadedResponse(store'[key])
            /\ etags' = [etags EXCEPT ![key] = {pres'.etag}]
  /\ UNCHANGED <<indexDocument, errorDocument, routingRule, gpc, greq, gkey,
                 gres, ghit, gobj, gims, gheld, glooks, gsent, gstreams>>
  /\ UNCHANGED notGet

\* the options of a server constructed without options
ConfigDefault ==
  /\ indexDocument = ""
  /\ errorDocument = ""
  /\ routingRule = NoRule

\* the options of a static-site configuration
ConfigAny ==
  /\ indexDocument \in {"", "index.html"}
  /\ errorDocument \in {"", "404.html"}
  /\ routingRule \in {NoRule, Rule}

InitGet ==
  /\ store = [k \in StoreKeys |-> NoObject]
  /\ etags = [k \in StoreKeys |-> {}]
  /\ gpc = "idle"
  /\ greq = NoRequest
  /\ gkey = ""
  /\ gres = NoGetResponse
  /\ ghit = FALSE
  /\ gobj = NoObject
  /\ gims = FALSE
  /\ gheld = FALSE
  /\ glooks = <<>>
  /\ gsent = 0
  /\ gstreams = <<>>
  /\ pres = NoGetResponse

InitBucket ==
  /\ buckets = {}
  /\ bpc = [r \in Puts |-> "idle"]
  /\ bname = [r \in Puts |-> NoName]
  /\ bres = [r \in Puts |-> NoResponse]
  /\ bstart = [r \in Puts |-> {}]
  /\ balone = [r \in Puts |-> TRUE]
  /\ bput = [r \in Puts |-> FALSE]
  /\ bfail = [r \in Puts |-> FALSE]

\* ------------------------------------------------------------------------
\* PUT /<bucket>/<key> with x-amz-copy-source
\* ------------------------------------------------------------------------
\* req.bucket and req.params.key of the copy
DestBucket == "foo"

DestKey == "b"

\* buckets and keys of the copy sources
SourceBuckets == {"src", "foo"}

SourceKeys == {"a"}

CopyKeys == (SourceBuckets \X SourceKeys) \cup {<<DestBucket, DestKey>>}

\* x-amz-copy-source: whether it starts with '/', and its parts between '/'
CopySources ==
  [slash : BOOLEAN, parts : {<<b, k>> : b \in SourceBuckets, k \in SourceKeys}]

Directives == {"", "COPY", "REPLACE"}

\* x-amz-meta-* of the request and of an uploaded source
NewMeta == "request"

SourceMeta == "source"

CopyRequests == [copy : CopySources, directive : Directives]

NoCopyRequest ==
  [copy |-> [slash |-> FALSE, parts |-> <<"", "">>], directive |-> ""]

\* a stored object with its body and custom metadata
NoCopyObject == [object |-> NoObject, body |-> "", meta |-> ""]

copyStored(body, now, meta) ==
  [object |-> storedObject(body, now), body |-> body, meta |-> meta]

\* copy.charAt(0) === '/' ? copy : '/' + copy, then copy.split('/'): the
\* first element is the empty string before the leading '/'
srcObjectParams(copy) == <<"">> \o copy.parts

\* srcObjectParams[1] (zero-based)
srcBucket(copy) == srcObjectParams(copy)[2]

\* srcObjectParams.slice(2).join('/'); the sources of the model have one
\* key part
srcObject(copy) == srcObjectParams(copy)[3]

\* a directive test that takes every directive for REPLACE
replaceMetadata_Present(directive) == directive # ""

\* req.headers['x-amz-metadata-directive'] === 'REPLACE'
replaceMetadata(directive) == directive = "REPLACE"

\* the options handed to fileStore.copyObject
copyOptions(req) ==
  [srcKey |-> srcObject(req.copy), srcBucket |-> srcBucket(req.copy),
   destBucket |-> DestBucket, destKey |-> DestKey,
   replaceMetadata |-> replaceMetadata(req.directive)]

\* fileStore.copyObject: the object written at the destination, with the
\* metadata of the request or of the source, md5 and modifiedDate anew
copyObjectResult(st, opts, now) ==
  LET from == st[<<opts.srcBucket, opts.srcKey>>] IN
  copyStored(from.body, now,
             IF opts.replaceMetadata THEN NewMeta ELSE from.meta)

\* buildCopyObject(key) sent with 200
copiedResponse(stored) ==
  [xmlResponse(200, "CopyObjectResult") EXCEPT
     !.etag = quoted(stored.object.md5),
     !.lastModified = stored.object.modifiedDate]

\* putObject with x-amz-copy-source up to the call of fileStore.getBucket
putObjectCopy(req) ==
  /\ cpc \in {"idle", "done"}
  /\ creq' = req
  /\ cres' = NoGetResponse
  /\ ccalls' = <<>>
  /\ cstreams' = <<>>
  /\ cdest' = cstore[<<DestBucket, DestKey>>]
  /\ cpc' = "getBucket"
  /\ UNCHANGED <<cbuckets, cstore>>
  /\ UNCHANGED notCopy

\* callback of fileStore.getBucket(srcBucket)
copyGetBucketCallback ==
  /\ cpc = "getBucket"
  /\ IF srcBucket(creq.copy) \notin cbuckets
       THEN /\ cres' = xmlResponse(404, "NoSuchBucket")
            /\ cpc' = "done"
       ELSE /\ cpc' = "getObject"
            /\ UNCHANGED cres
  /\ UNCHANGED <<cbuckets, cstore, creq, ccalls, cstreams, cdest>>
  /\ UNCHANGED notCopy

\* callback of fileStore.getObject(bucket, srcObject): function (err), the
\* stream of a hit is not bound
copyGetObjectCallback ==
  /\ cpc = "getObject"
  /\ IF ~cstore[<<srcBucket(creq.copy), srcObject(creq.copy)>>].object.present
       THEN /\ cres' = xmlResponse(404, "NoSuchKey")
            /\ cpc' = "done"
            /\ UNCHANGED <<ccalls, cstreams>>
       ELSE /\ cstreams' = Append(cstreams, "open")
            /\ ccalls' = Append(ccalls, copyOptions(creq))
            /\ cpc' = "copyObject"
            /\ UNCHANGED cres
  /\ UNCHANGED <<cbuckets, cstore, creq, cdest>>
  /\ UNCHANGED notCopy

\* callback of fileStore.copyObject; io: the store fails
copyObjectCallback(now, io) ==
  /\ cpc = "copyObject"
  /\ cpc' = "done"
  /\ LET opts == ccalls[Len(ccalls)]
         gone == ~cstore[<<opts.srcBucket, opts.srcKey>>].object.present
     IN
     IF io \/ gone
       THEN /\ cres' = xmlResponse(500, "InternalError")
            /\ UNCHANGED cstore
       ELSE /\ cstore' = [cstore EXCEPT ![<<opts.destBucket, opts.destKey>>] =
                                          copyObjectResult(cstore, opts, now)]
            /\ cres' = copiedResponse(cstore'[<<opts.destBucket, opts.destKey>>])
  /\ UNCHANGED <<cbuckets, creq, ccalls, cstreams, cdest>>
  /\ UNCHANGED notCopy

\* another client's PUT /<bucket> has created a source bucket
sourceBucketPut(b) ==
  /\ b \notin cbuckets
  /\ cbuckets' = cbuckets \cup {b}
  /\ UNCHANGED <<cstore, cpc, creq, cres, ccalls, cstreams, cdest>>
  /\ UNCHANGED notCopy

\* another client's PUT /<bucket>/<key> has stored a source
sourcePut(b, k, body, now) ==
  /\ b \in cbuckets
  /\ cstore' = [cstore EXCEPT ![<<b, k>>] = copyStored(body, now, SourceMeta)]
  /\ UNCHANGED <<cbuckets, cpc, creq, cres, ccalls, cstreams, cdest>>
  /\ UNCHANGED notCopy

\* another client's DELETE /<bucket>/<key> has removed a source
sourceDeleted(b, k) ==
  /\ cstore[<<b, k>>].object.present
  /\ cstore' = [cstore EXCEPT ![<<b, k>>] = NoCopyObject]
  /\ UNCHANGED <<cbuckets, cpc, creq, cres, ccalls, cstreams, cdest>>
  /\ UNCHANGED notCopy

\* the bucket of the request exists, nothing is stored
InitCopy ==
  /\ cbuckets = {DestBucket}
  /\ cstore = [k \in CopyKeys |-> NoCopyObject]
  /\ cpc = "idle"
  /\ creq = NoCopyRequest
  /\ cres = NoGetResponse
  /\ ccalls = <<>>
  /\ cstreams = <<>>
  /\ cdest = NoCopyObject

\* ------------------------------------------------------------------------
\* PUT and GET of one key at the same time
\* ------------------------------------------------------------------------
\* number of uploads of the key
MaxUploads == 2

SameKeyUploads == 1..MaxUploads

NoUpload == 0

\* the body of an upload: uploads differ in body and so in md5 and size
bodyOf(u) == IF u % 2 = 1 THEN "hello" ELSE "a"

\* the sidecar putObject writes for upload u
sidecarOf(u) == storedObject(bodyOf(u), 1000)

NoSameKeyResponse == [res |-> NoGetResponse, body |-> ""]

\* PUT /<bucket>/<key> arrives and the store starts streaming the body into
\* a temporary file
putObjectStart(u) ==
  /\ upc[u] = "idle"
  /\ upc' = [upc EXCEPT ![u] = "body"]
  /\ UNCHANGED <<diskBody, diskMeta, ures, apc, ameta, abody, ares, alate,
                 published>>
  /\ UNCHANGED notSameKey

\* fileStore.putObject: writeAtomic renames the written body to <key>
writeBody(u) ==
  /\ upc[u] = "body"
  /\ diskBody' = u
  /\ upc' = [upc EXCEPT ![u] = "sidecar"]
  /\ UNCHANGED <<diskMeta, ures, apc, ameta, abody, ares, alate, published>>
  /\ UNCHANGED notSameKey

\* fileStore.putObject writes the sidecar, and its callback answers the PUT;
\* io: the store fails
putObjectCallback(u, io) ==
  /\ upc[u] = "sidecar"
  /\ upc' = [upc EXCEPT ![u] = "done"]
  /\ IF io
       THEN /\ ures' = [ures EXCEPT ![u] = xmlResponse(500, "InternalError")]
            /\ UNCHANGED <<diskMeta, published>>
       ELSE /\ diskMeta' = u
            /\ published' = Append(published, u)
            /\ ures' = [ures EXCEPT ![u] = uploadedResponse(sidecarOf(u))]
  /\ UNCHANGED <<diskBody, apc, ameta, abody, ares, alate>>
  /\ UNCHANGED notSameKey

\* GET /<bucket>/<key> arrives: getObject up to fileStore.getObject
sameKeyGet ==
  /\ apc \in {"idle", "done"}
  /\ apc' = "getObject"
  /\ ameta' = NoUpload
  /\ abody' = NoUpload
  /\ ares' = NoSameKeyResponse
  /\ alate' = \A u \in SameKeyUploads : upc[u] = "done"
  /\ UNCHANGED <<diskBody, diskMeta, upc, ures, published>>
  /\ UNCHANGED notSameKey

\* fileStore.getObject loads the sidecar; without a sidecar the callback
\* gets err and the handler answers 404
loadSidecar ==
  /\ apc = "getObject"
  /\ IF diskMeta = NoUpload
       THEN /\ apc' = "done"
            /\ ares' = [res |-> xmlResponse(404, "NoSuchKey"), body |-> ""]
            /\ UNCHANGED ameta
       ELSE /\ apc' = "open"
            /\ ameta' = diskMeta
            /\ UNCHANGED ares
  /\ UNCHANGED <<diskBody, diskMeta, upc, ures, abody, alate, published>>
  /\ UNCHANGED notSameKey

\* fileStore.getObject opens the body, and its callback answers the GET with
\* the loaded object and the opened stream
sameKeyGetCallback ==
  /\ apc = "open"
  /\ apc' = "done"
  /\ abody' = diskBody
  /\ ares' = [res |-> buildResponse("GET", 200, sidecarOf(ameta),
                                     openRead("a", NoRange)),
              body |-> bodyOf(abody')]
  /\ UNCHANGED <<diskBody, diskMeta, upc, ures, ameta, alate, published>>
  /\ UNCHANGED notSameKey

\* the key is not stored, no request has arrived
InitSameKey ==
  /\ diskBody = NoUpload
  /\ diskMeta = NoUpload
  /\ upc = [u \in SameKeyUploads |-> "idle"]
  /\ ures = [u \in SameKeyUploads |-> NoGetResponse]
  /\ apc = "idle"
  /\ ameta = NoUpload
  /\ abody = NoUpload
  /\ ares = NoSameKeyResponse
  /\ alate = FALSE
  /\ published = <<>>

\* ------------------------------------------------------------------------
\* S3rver: the options and their setters (lib/index.js)
\* ------------------------------------------------------------------------
\* a property that this.options does not have
Absent == "undefined"

\* a setter that has not been called
Unset == "unset"

Setters ==
  {"setPort", "setHostname", "setDirectory", "setSilent", "setIndexDocument",
   "setErrorDocument", "setFs", "setRedirectRule"}

\* this.options of the constructor; values are written as their text
DefaultOptions ==
  [port |-> "4578", hostname |-> "localhost", silent |-> "false",
   indexDocument |-> "", errorDocument |-> "", fs |-> "fs-extra",
   routingRule |-> "null", directory |-> Absent, redirectRule |-> Absent]

\* arguments of the setters
OptionValues == {"x", "y"}

setPort(port) ==
  /\ options' = [options EXCEPT !.port = port]
  /\ olast' = [olast EXCEPT !["setPort"] = port]
  /\ oself' = TRUE
  /\ UNCHANGED notOptions

setHostname(hostname) ==
  /\ options' = [options EXCEPT !.hostname = hostname]
  /\ olast' = [olast EXCEPT !["setHostname"] = hostname]
  /\ oself' = TRUE
  /\ UNCHANGED notOptions

setDirectory(directory) ==
  /\ options' = [options EXCEPT !.directory = directory]
  /\ olast' = [olast EXCEPT !["setDirectory"] = directory]
  /\ oself' = TRUE
  /\ UNCHANGED notOptions

setSilent(silent) ==
  /\ options' = [options EXCEPT !.silent = silent]
  /\ olast' = [olast EXCEPT !["setSilent"] = silent]
  /\ oself' = TRUE
  /\ UNCHANGED notOptions

setIndexDocument(value) ==
  /\ options' = [options EXCEPT !.indexDocument = value]
  /\ olast' = [olast EXCEPT !["setIndexDocument"] = value]
  /\ oself' = TRUE
  /\ UNCHANGED notOptions

setErrorDocument(value) ==
  /\ options' = [options EXCEPT !.errorDocument = value]
  /\ olast' = [olast EXCEPT !["setErrorDocument"] = value]
  /\ oself' = TRUE
  /\ UNCHANGED notOptions

setFs(fs) ==
  /\ options' = [options EXCEPT !.fs = fs]
  /\ olast' = [olast EXCEPT !["setFs"] = fs]
  /\ oself' = TRUE
  /\ UNCHANGED notOptions

\* this.options.redirectRule = redirectRule
setRedirectRule(redirectRule) ==
  /\ options' = [options EXCEPT !.redirectRule = redirectRule]
  /\ olast' = [olast EXCEPT !["setRedirectRule"] = redirectRule]
  /\ oself' = TRUE
  /\ UNCHANGED notOptions

\* new S3rver() without options
InitOptions ==
  /\ options = DefaultOptions
  /\ olast = [f \in Setters |-> Unset]
  /\ oself = TRUE

vars == <<deleteVars, bucketVars, getVars, buildVars, dropVars, copyVars,
          sameKeyVars, optionVars>>

\* the routes and the builder that a specification does not exercise
InitOthers == InitDrop /\ InitCopy /\ InitSameKey /\ InitOptions

\* the state after construction
Init ==
  InitDelete /\ InitBucket /\ InitGet /\ ConfigDefault /\ BuildAtRest
    /\ InitOthers

\* batch delete on a bucket that other clients write and delete in
Next ==
  \/ \E d \in BOOLEAN, b \in Bodies : genericPost(d, b)
  \/ \E i \in 1..MaxKeys : existsCallback(i)
  \/ \E i \in 1..MaxKeys, io \in BOOLEAN : deleteCallback(i, io)
  \/ \E k \in Keys, io \in BOOLEAN : deleteObject(k, io)
  \/ \E k \in Keys, io \in BOOLEAN : putObject(k, io)

Spec == Init /\ [][Next]_vars

\* bucket creation
NextBucket ==
  \/ \E r \in Puts, n \in BucketNames : putBucketStart(r, n)
  \/ \E r \in Puts : getBucketCallback(r)
  \/ \E r \in Puts, io \in BOOLEAN : putBucketCallback(r, io)

SpecBucket == Init /\ [][NextBucket]_vars

\* bucket removal, with other clients storing objects and creating the bucket
NextDrop ==
  \/ \E r \in Drops : deleteBucketStart(r)
  \/ \E r \in Drops : bucketExists(r)
  \/ \E r \in Drops, io \in BOOLEAN : deleteBucketCallback(r, io)
  \/ \E k \in Keys : bucketObjectPut(k)
  \/ bucketPut

SpecDrop == Init /\ [][NextDrop]_vars

\* copies, with other clients creating, storing and removing the sources
NextCopy ==
  \/ \E req \in CopyRequests : putObjectCopy(req)
  \/ copyGetBucketCallback
  \/ copyGetObjectCallback
  \/ \E t \in Times, io \in BOOLEAN : copyObjectCallback(t, io)
  \/ \E b \in SourceBuckets : sourceBucketPut(b)
  \/ \E b \in SourceBuckets, k \in SourceKeys, body \in GetBodies :
       \E t \in Times : sourcePut(b, k, body, t)
  \/ \E b \in SourceBuckets, k \in SourceKeys : sourceDeleted(b, k)

SpecCopy == Init /\ [][NextCopy]_vars

\* uploads of one key and GETs of it, interleaved at the steps of the store
NextSameKey ==
  \/ \E u \in SameKeyUploads : putObjectStart(u)
  \/ \E u \in SameKeyUploads : writeBody(u)
  \/ \E u \in SameKeyUploads, io \in BOOLEAN : putObjectCallback(u, io)
  \/ sameKeyGet
  \/ loadSidecar
  \/ sameKeyGetCallback

SpecSameKey == Init /\ [][NextSameKey]_vars

\* any sequence of setter calls on a server constructed without options
NextOptions ==
  \/ \E v \in OptionValues : setPort(v)
  \/ \E v \in OptionValues : setHostname(v)
  \/ \E v \in OptionValues : setDirectory(v)
  \/ \E v \in OptionValues : setSilent(v)
  \/ \E v \in OptionValues : setIndexDocument(v)
  \/ \E v \in OptionValues : setErrorDocument(v)
  \/ \E v \in OptionValues : setFs(v)
  \/ \E v \in OptionValues : setRedirectRule(v)

SpecOptions == Init /\ [][NextOptions]_vars

\* GET and PUT of objects under any static-site configuration
InitObjects ==
  InitDelete /\ InitBucket /\ InitGet /\ ConfigAny /\ BuildAtRest
    /\ InitOthers

NextGet ==
  \/ \E req \in Requests : getObject(req)
  \/ \E t \in Times : getObjectCallback(t)
  \/ \E t \in Times : getIndexCallback(t)
  \/ \E t \in Times : getErrorCallback(t)
  \/ \E k \in StoreKeys, io \in BOOLEAN :
       \E u \in Uploads(k) : putObjectUpload(k, u[1], u[2], io)

SpecGet == InitObjects /\ [][NextGet]_vars

\* the response builder applied to every size and range of the bounds
InitBuilder ==
  InitDelete /\ InitBucket /\ InitGet /\ ConfigDefault /\ BuildInputs
    /\ InitOthers

NextBuild ==
  \E m \in {"GET", "HEAD"}, st \in {200, 206} : buildResponseCall(m, st)

SpecBuild == InitBuilder /\ [][NextBuild]_vars


\* ------------------------------------------------------------------------
\* Properties of batch delete
\* ------------------------------------------------------------------------
\* a response as the client sees it
Answer(status, code, key, ks) ==
  [status |-> status, code |-> code, key |-> key, keys |-> ks]

\* elements whose existence check reported the key missing
Missing == {i \in DOMAIN exists : exists[i] = "err"}

\* the batch request was parsed, every listed key was stored when it
\* arrived, no other request changed the bucket and the file system did
\* not fail
CleanRun ==
  /\ keys # <<>>
  /\ Range(keys) \subseteq snapshot
  /\ ~interfered
  /\ ~ioFailed

\* C1: when a listed key is missing at the existence check, the request is
\* answered 404 NoSuchKey for the first missing key in document order and
\* this request removes nothing.
C1_FirstMissingKey ==
  (pc = "finished" /\ Missing # {}) =>
     /\ responses # <<>>
     /\ responses[1] = Answer(404, "NoSuchKey", keys[Min(Missing)], <<>>)
     /\ log = <<>>

\* C2: at most one response is written for a batch delete request.
C2_AtMostOneResponse == Len(responses) <= 1

\* C3: the keys are removed in document order, and nothing later in the list
\* is removed once a removal has failed (the removed keys are always a
\* prefix of the list); a failed removal is answered 500 InternalError.
C3_RemovedInOrder ==
  /\ IsPrefix(log, keys)
  /\ (\E i \in DOMAIN deleted : deleted[i] = "err") =>
        /\ responses # <<>>
        /\ responses[1] = Answer(500, "InternalError", NoKey, <<>>)

\* C4 as stated: every key list whose keys all exist, duplicates included,
\* ends with exactly one response, 200 DeleteResult(keys), and when it is
\* sent none of the listed keys is left.
C4_AnyListSucceeds ==
  CleanRun =>
     /\ pc = "finished" => responses # <<>>
     /\ responses # <<>> =>
          /\ responses = <<Answer(200, "DeleteResult", NoKey, keys)>>
          /\ Range(keys) \cap objects = {}

\* C4 amended: every list of pairwise distinct keys that all exist ends with
\* exactly one response, 200 DeleteResult(keys), and when it is sent none of
\* the listed keys is left: this request has removed each of them.
C4_DistinctListSucceeds ==
  (CleanRun /\ Distinct(keys)) =>
     /\ pc = "finished" => responses # <<>>
     /\ responses # <<>> =>
          /\ responses = <<Answer(200, "DeleteResult", NoKey, keys)>>
          /\ Range(keys) \cap objects = {}
          /\ Range(log) = Range(keys)

C4_Witness ==
  /\ pc = "finished"
  /\ CleanRun
  /\ Distinct(keys)
  /\ Len(keys) >= 2
  /\ responses = <<Answer(200, "DeleteResult", NoKey, keys)>>

\* C5: a batch delete whose body is malformed XML is answered with the
\* single response 500 InternalError and removes nothing.
C5_MalformedIs500 ==
  parseErr =>
     /\ responses = <<Answer(500, "InternalError", NoKey, <<>>)>>
     /\ log = <<>>

\* C6: when a removal finds its key taken away by another request after the
\* existence check passed, the request is answered 500 InternalError, and
\* neither 200 nor 404 is ever written for it.
C6_LostRaceIs500 ==
  raceLost =>
     /\ responses # <<>>
     /\ \A i \in DOMAIN responses :
          /\ responses[i].status = 500
          /\ responses[i].code = "InternalError"

C6_Witness ==
  /\ raceLost
  /\ interfered
  /\ pc = "finished"
  /\ Missing = {}
  /\ responses # <<>>

\* ------------------------------------------------------------------------
\* Properties of PUT /<bucket>
\* ------------------------------------------------------------------------
\* the name satisfies the documented bucket invariant
DocumentedName(name) ==
  /\ documentedRegexTest(name)
  /\ Len(name) >= 3
  /\ Len(name) <= 63

\* C7: every bucket created through PUT /<bucket> has a name that matches
\* ^[a-z0-9]+([.-][-a-z0-9]+)*$ and has 3 to 63 characters; a PUT with any
\* other name is answered 400 InvalidBucketName and creates nothing.
C7_BucketNamesValid ==
  /\ \A n \in buckets : DocumentedName(n)
  /\ \A r \in Puts :
       (bpc[r] = "done" /\ ~DocumentedName(bname[r])) =>
          /\ bres[r] = errorXml(400, "InvalidBucketName")
          /\ ~bput[r]

\* C8: a PUT /<bucket> with a valid name that runs with no other request in
\* progress creates the bucket and answers 200 with Location: /<bucket> when
\* the bucket did not exist, answers 409 BucketAlreadyExists without calling
\* putBucket and without changing the buckets when it existed, and answers
\* 500 InternalError when the store fails to create it.
C8_SequentialPut ==
  [][\A r \in Puts :
       (bpc[r] # "done" /\ bpc'[r] = "done" /\ balone'[r]
          /\ nameRegexTest(bname'[r]) /\ ~nameLengthInvalid(bname'[r])) =>
         IF bname'[r] \in bstart'[r]
           THEN /\ bres'[r] = errorXml(409, "BucketAlreadyExists")
                /\ ~bput'[r]
                /\ buckets' = bstart'[r]
           ELSE IF bfail'[r]
             THEN /\ bres'[r] = errorXml(500, "InternalError")
                  /\ buckets' = bstart'[r]
             ELSE /\ bres'[r].status = 200
                  /\ bres'[r].location = <<"/">> \o bname'[r]
                  /\ bput'[r]
                  /\ buckets' = bstart'[r] \cup {bname'[r]}]_vars

\* the same name was PUT twice, one request after the other: 200, then 409
C8_Witness ==
  \E r, q \in Puts :
    /\ r # q
    /\ bpc[r] = "done" /\ bpc[q] = "done"
    /\ balone[r] /\ balone[q]
    /\ bname[r] = bname[q]
    /\ bres[r].status = 200
    /\ bres[q] = errorXml(409, "BucketAlreadyExists")

\* ------------------------------------------------------------------------
\* Properties of the response builder and of conditional GET
\* ------------------------------------------------------------------------
\* C9: for an object of size >= 1 and a range [a,b] with 0 <= a <= b < size
\* (b = 0 included) the response carries Content-Range: bytes a-b/size and
\* Content-Length b-a+1; an end that is omitted or >= size is clamped to
\* size-1; without a range Content-Length is the size.
C9_RangeArithmetic ==
  (rres # NoGetResponse /\ rsize >= 1) =>
     /\ (rrange.present /\ rrange.end # Undefined
           /\ rrange.start <= rrange.end /\ rrange.end < rsize) =>
          /\ rres.contentRange =
               [start |-> rrange.start, end |-> rrange.end, size |-> rsize]
          /\ rres.contentLength = rrange.end - rrange.start + 1
     /\ (rrange.present /\ (rrange.end = Undefined \/ rrange.end >= rsize)) =>
          rres.contentRange.end = rsize - 1
     /\ ~rrange.present =>
          /\ rres.contentLength = rsize
          /\ rres.contentRange = NoContentRange

\* If-None-Match names the object found: the wildcard, its quoted md5, or an
\* ETag answered by an earlier PUT or GET of the object while unmodified
NamesObject == greq.inm = "*" \/ greq.inm = quoted(gobj.md5) \/ gheld

\* C10: on a hit, an If-None-Match that is * or the quoted md5 of the object
\* (in particular an ETag answered earlier for the unmodified object) gives
\* 304 with no body whatever If-Modified-Since says, and If-Modified-Since is
\* consulted only when If-None-Match is absent or does not match.
C10_NoneMatchFirst ==
  (gpc = "done" /\ ghit) =>
     /\ NamesObject => (gres = endResponse(304) /\ ~gres.piped /\ ~gims)
     /\ gims => (greq.inm = NoHeader \/ ~NamesObject)

\* an ETag answered earlier is presented together with an If-Modified-Since
\* that is older than the object
C10_Witness ==
  /\ gpc = "done"
  /\ ghit
  /\ gheld
  /\ greq.inm # "*"
  /\ greq.ims.present
  /\ greq.ims.time < gobj.modifiedDate
  /\ gres.status = 304

\* C11: on a hit whose If-None-Match does not match, the response is 304
\* exactly when the If-Modified-Since time is at or after the modifiedDate of
\* the object, both taken at whole seconds as toUTCString takes them; so the
\* Last-Modified answered for an object gives 304 when sent back, whatever
\* the sub-second part of the stored modifiedDate.
C11_SecondPrecision ==
  (gpc = "done" /\ ghit /\ gims) =>
     (gres.status = 304 <=>
        /\ greq.ims.present
        /\ greq.ims.time # NaN
        /\ toUTCString(greq.ims.time) >= toUTCString(gobj.modifiedDate))

\* a Range header the object can satisfy: it starts inside the object and
\* does not end before it starts
satisfiable(range, size) ==
  /\ range.present
  /\ range.start < size
  /\ (range.end = Undefined \/ range.start <= range.end)

\* C12: a GET or HEAD hit answered with the object has status 206 exactly
\* when the request had a Range header the object can satisfy and 200
\* otherwise, it has status 206 exactly when it carries Content-Range, and a
\* 200 carries the full size as Content-Length.
C12_PartialStatus ==
  (gpc = "done" /\ ghit /\ gres.kind = "object") =>
     /\ gres.status = (IF satisfiable(greq.range, gobj.size) THEN 206 ELSE 200)
     /\ (gres.status = 206 <=> gres.contentRange # NoContentRange)
     /\ (gres.status = 200 => gres.contentLength = gobj.size)

\* the key of the index document under the requested key
indexKey == greq.key \o "/" \o indexDocument

\* how often the request has looked up key
lookups(looks, key) == Cardinality({i \in DOMAIN looks : looks[i] = key})

\* the error-document fallback has taken over: it has answered 404 or is
\* looking up the error document
fallback(at, res, looks) ==
  \/ at = "done" /\ res.status = 404
  \/ at = "getError" /\ looks[Len(looks)] = errorDocument

fallbackAnswers ==
  /\ gpc' = "done"
  /\ \/ gpc = "getObject" /\ ~lookup(store, gkey).present /\ ~routingRule.set
     \/ gpc = "getIndex" /\ ~lookup(store, gkey).present
     \/ gpc = "getError"

\* res is the stored error document, answered with 404
isErrorDocument(res) ==
  /\ res.status = 404
  /\ res.kind = "object"
  /\ res.source = errorDocument
  /\ res.etag = quoted(lookup(store, errorDocument).md5)
  /\ res.contentLength = lookup(store, errorDocument).size

\* res is the fixed HTML document "404 - Resource Not Found"
isNotFoundPage(res) ==
  /\ res.status = 404
  /\ res.kind = "object"
  /\ res.source = ""
  /\ res.contentType = "text/html"
  /\ res.contentLength = ErrorDocLength

\* the fallback of a static site: the error document if it is configured and
\* stored, the fixed HTML document otherwise
staticSiteFallback(res) ==
  IF errorDocument # "" /\ lookup(store, errorDocument).present
    THEN isErrorDocument(res)
    ELSE isNotFoundPage(res)

\* C14 as stated: every GET miss that is not redirected is answered once, with
\* 404: by the error document if errorDocument is configured and stored, by
\* the fixed HTML document (text/html) if errorDocument is not configured or
\* not stored.
C14_ErrorDocument ==
  [][fallbackAnswers =>
       /\ gsent' = 1
       /\ gres'.status = 404
       /\ staticSiteFallback(gres')]_vars

\* C14: a GET miss that is not redirected is answered once, with 404; with
\* indexDocument configured the answer is the error document if errorDocument
\* is configured and stored and the fixed HTML document (text/html) if it is
\* not configured or not stored; with indexDocument not configured the answer
\* is the XML error NoSuchKey, whatever errorDocument is.
C14_StaticSiteErrorDocument ==
  [][fallbackAnswers =>
       /\ gsent' = 1
       /\ gres'.status = 404
       /\ IF indexDocument # ""
            THEN staticSiteFallback(gres')
            ELSE /\ gres'.kind = "xml"
                 /\ gres'.code = "NoSuchKey"
                 /\ glooks' = <<greq.key>>]_vars

\* the index document is missing and the stored error document is answered
C14_Witness ==
  /\ gpc = "done"
  /\ ~ghit
  /\ indexDocument # ""
  /\ glooks = <<"a", "a/index.html", "404.html">>
  /\ gsent = 1
  /\ gres.status = 404
  /\ gres.source = "404.html"

\* C19: when the response of a GET or HEAD has ended, every body stream the
\* store's getObject handed to the handler has been piped (once) or closed;
\* this includes the 304 answers and the answers to HEAD.
C19_StreamsConsumed ==
  gpc = "done" =>
     \A i \in DOMAIN gstreams : gstreams[i] \in {"piped", "closed"}

\* C18: of two PUT /<bucket> for one valid name that did not exist when
\* either arrived, at most one calls putBucket, and when both have been
\* answered at most one answer is 200 while the other is 409.
C18_OneCreator ==
  \A r, q \in Puts :
    (r # q /\ bname[r] = bname[q] /\ bname[r] # NoName
       /\ bname[r] \notin bstart[r] /\ bname[q] \notin bstart[q]) =>
      /\ ~(bput[r] /\ bput[q])
      /\ (bpc[r] = "done" /\ bpc[q] = "done" /\ bres[r].status = 200) =>
           bres[q] = errorXml(409, "BucketAlreadyExists")

\* C16: a DELETE /<bucket> that reaches the store answers 409 BucketNotEmpty
\* and leaves the bucket and its objects as they are when the bucket holds an
\* object, answers 204 with no body and removes the bucket when it is empty,
\* and answers 409 BucketNotEmpty only when the bucket holds an object.
C16_DeleteBucket ==
  [][\A r \in Drops :
       (dpc[r] = "deleteBucket" /\ dpc'[r] = "done") =>
         /\ (dexists /\ dkeys # {}) =>
              /\ dres'[r] = errorXml(409, "BucketNotEmpty")
              /\ dexists' /\ dkeys' = dkeys
         /\ (dexists /\ dkeys = {}) =>
              /\ dres'[r] = noContentResponse
              /\ ~dexists'
         /\ dres'[r].code = "BucketNotEmpty" => (dexists /\ dkeys # {})]_vars

\* the source the copy request names
copySource == cstore[<<srcBucket(creq.copy), srcObject(creq.copy)>>]

copyDest == cstore[<<DestBucket, DestKey>>]

\* C15: a PUT with x-amz-copy-source answers 404 NoSuchBucket when the source
\* bucket is missing and 404 NoSuchKey when the bucket exists and the source
\* key is missing, in both cases without a call of copyObject and with the
\* destination as it was; otherwise it calls copyObject once, with
\* replaceMetadata true exactly for the directive REPLACE, and answers 200
\* CopyObjectResult when the copy succeeds and 500 InternalError when it
\* fails.
C15_CopySource ==
  [][/\ (cpc = "getBucket" /\ cpc' # "getBucket") =>
          IF srcBucket(creq.copy) \notin cbuckets
            THEN /\ cpc' = "done"
                 /\ cres'.status = 404 /\ cres'.code = "NoSuchBucket"
                 /\ ccalls' = <<>>
                 /\ copyDest' = cdest
            ELSE cpc' = "getObject" /\ ccalls' = <<>>
     /\ (cpc = "getObject" /\ cpc' # "getObject") =>
          IF ~copySource.object.present
            THEN /\ cpc' = "done"
                 /\ cres'.status = 404 /\ cres'.code = "NoSuchKey"
                 /\ ccalls' = <<>>
                 /\ copyDest' = cdest
            ELSE /\ cpc' = "copyObject"
                 /\ Len(ccalls') = 1
                 /\ ccalls'[1].replaceMetadata = (creq.directive = "REPLACE")
                 /\ ccalls'[1].srcBucket = creq.copy.parts[1]
                 /\ ccalls'[1].srcKey = creq.copy.parts[2]
                 /\ ccalls'[1].destKey = DestKey
     /\ (cpc = "copyObject" /\ cpc' # "copyObject") =>
          /\ cpc' = "done"
          /\ ccalls' = ccalls
          /\ \/ /\ cres'.status = 200 /\ cres'.code = "CopyObjectResult"
                /\ copyDest'.body = copySource.body
                /\ copyDest'.meta = (IF creq.directive = "REPLACE"
                                       THEN NewMeta ELSE copySource.meta)
                /\ cres'.etag = quoted(md5Hex(copySource.body))
             \/ /\ cres'.status = 500 /\ cres'.code = "InternalError"
                /\ copyDest' = copyDest]_vars

\* a copy with the directive REPLACE has been answered 200 and the
\* destination carries the metadata of the request
C15_Witness ==
  /\ cpc = "done"
  /\ cres.status = 200
  /\ creq.directive = "REPLACE"
  /\ Len(ccalls) = 1
  /\ ccalls[1].replaceMetadata
  /\ copyDest.meta = NewMeta

\* C17: a GET of a key that is being uploaded answers ETag, size and body of
\* one and the same upload, and a GET that arrives when all uploads of the
\* key have been answered observes the sidecar and the body of the upload
\* published last.
C17_SameUpload ==
  (apc = "done" /\ ares.res.status = 200) =>
     /\ ares.res.etag = quoted(md5Hex(ares.body))
     /\ ares.res.contentLength = Len(ares.body)
     /\ alate => /\ ameta = published[Len(published)]
                 /\ abody = published[Len(published)]

\* the option the documentation gives a setter
documentedOption(setter) ==
  CASE setter = "setPort" -> "port"
    [] setter = "setHostname" -> "hostname"
    [] setter = "setDirectory" -> "directory"
    [] setter = "setSilent" -> "silent"
    [] setter = "setIndexDocument" -> "indexDocument"
    [] setter = "setErrorDocument" -> "errorDocument"
    [] setter = "setFs" -> "fs"
    [] setter = "setRedirectRule" -> "routingRule"

\* C20: after any sequence of setter calls every option holds the argument of
\* the last call of its setter, or its default (port 4578, hostname
\* localhost, routingRule null) when the setter was not called, no other
\* option is written, and every setter returns the server.
C20_Setters ==
  /\ oself
  /\ \A f \in Setters :
       options[documentedOption(f)] =
         IF olast[f] = Unset THEN DefaultOptions[documentedOption(f)]
         ELSE olast[f]
  /\ \A k \in DOMAIN options \ {documentedOption(f) : f \in Setters} :
       options[k] = DefaultOptions[k]
  /\ DefaultOptions.port = "4578"
  /\ DefaultOptions.hostname = "localhost"
  /\ DefaultOptions.routingRule = "null"

====
